---- MODULE Spec2Model ----
(***************************************************************************)
(* Model of rkt/ping/network_ping.py: the NetworkPinger class              *)
(* (ping_single_ip, ping_multiple_ips, ping_network_range,                 *)
(* continuous_monitor, print_results, export_results), validate_ip and    *)
(* main (without its export step: args.output is not given).               *)
(*                                                                         *)
(* Strings are modelled by their tokens.  An address string is the         *)
(* sequence of its '.'-separated tokens: a token that is a decimal number  *)
(* is that number, any other token is -1, and the empty string has no      *)
(* tokens.  A network string is the pair of the tokens before and after    *)
(* the '/'.  An IPv6 string has no '.', so it is one token: the token of   *)
(* the IPv6 text whose address is the integer v is -(v + 2).  The inputs   *)
(* are IPv4 strings, IPv6 strings and strings that are no address at all.  *)
(*                                                                         *)
(* Durations are integers in microseconds, response times integers in      *)
(* hundredths of a millisecond (round(x, 2) of a millisecond value).  The  *)
(* clock of the monitor counts whole seconds, and a timestamp string is    *)
(* modelled by the clock reading it spells.                                *)
(* None is the empty sequence <<>>, a present value v is <<v>>.            *)
(***************************************************************************)
EXTENDS Integers, Sequences, FiniteSets, TLC

VARIABLES
    pc,          \* position of the main thread
    exc,         \* exception that left the outermost frame, "none" if none
    args,        \* the parsed command line (argparse namespace)
    ti,          \* index of the next target of main's loop over args.targets
    ip_list,     \* main's ip_list
    stdout,      \* messages printed so far, in order
    outcomes,    \* outcomes the external ping can have in this run
    caller,      \* who called ping_multiple_ips: "direct", "range", "main"
                 \* or "monitor"; in a report call, the method called
    pm_ip_list,  \* ping_multiple_ips: the ip_list argument
    max_workers, \* ping_multiple_ips: the max_workers argument
    nsub,        \* ping_multiple_ips: number of executor.submit calls made
    fstate,      \* state of each future: "pending", "running" or "finished"
    fresult,     \* each finished future: the outcome o the external call had
                 \* and the result r of ping_single_ip
    collected,   \* futures that as_completed has yielded
    results,     \* ping_multiple_ips: the results dict under assembly
    ret,         \* value returned by the outermost call, <<>> before it returns
    table,       \* rows printed by print_results, in order
    now,         \* the clock, in whole seconds (time.time, datetime.now)
    mon,         \* continuous_monitor: its arguments, its locals, and what an
                 \* observer of the session records
    xp           \* export_results: its arguments, the file and how it ended

vars == <<pc, exc, args, ti, ip_list, stdout, outcomes, caller, pm_ip_list,
          max_workers, nsub, fstate, fresult, collected, results, ret, table,
          now, mon, xp>>

(***************************************************************************)
(* Bounds of the model.                                                    *)
(***************************************************************************)
MaxTargets == 3     \* longest ip_list handed directly to ping_multiple_ips
MaxProbes == 2      \* longest ip_list when every outcome of a probe is drawn
MaxWorkers == 2     \* largest max_workers
MaxHostBits == 2    \* the shortest prefix of a network is 32 - MaxHostBits
MaxArgs == 2        \* most literal targets on main's command line
MaxFileLines == 1   \* most lines of the address file
MaxInterval == 2    \* longest interval of a monitor run
MaxDuration == 3    \* longest duration of a monitor run
MaxDispatchTime == 2  \* longest time one dispatch of a monitor run takes
MaxTime == 8        \* the clock of a monitor run stops advancing here
MaxCycles == 6      \* the cycle counter of a monitor run stops advancing here
MaxSnapshot == 2    \* most entries of a snapshot handed to a report call

(***************************************************************************)
(* Program constants.                                                      *)
(***************************************************************************)
DefaultTimeout == 3       \* NetworkPinger.timeout, seconds
WatchdogGrace == 5        \* subprocess.run(..., timeout=self.timeout + 5)
MaxPrefixLen == 32        \* prefix length of one IPv4 address (ip_network)
MaxOctet == 255           \* largest IPv4 octet (ip_address)
UsecPerSecond == 1000000  \* the model's time unit
DefaultMaxWorkers == 50   \* ping_multiple_ips(ip_list, max_workers=50)
DefaultInterval == 60     \* main: --interval, default=60

(***************************************************************************)
(* Exceptions: Python's class hierarchy as far as the handlers see it.     *)
(***************************************************************************)
Superclasses(e) ==
    CASE e = "AddressValueError" -> {"AddressValueError", "ValueError", "Exception"}
      [] e = "ValueError"        -> {"ValueError", "Exception"}
      [] e = "TimeoutExpired"    -> {"TimeoutExpired", "SubprocessError", "Exception"}
      [] e = "FileNotFoundError" -> {"FileNotFoundError", "OSError", "Exception"}
      [] e = "PermissionError"   -> {"PermissionError", "OSError", "Exception"}
      [] OTHER                   -> {e}

\* "except cls:" catches e
Catches(cls, e) == cls \in Superclasses(e)

(***************************************************************************)
(* ipaddress.ip_address / ip_network on token strings.                     *)
(***************************************************************************)
IsIPv4(s) ==
    /\ Len(s) = 4
    /\ \A i \in 1..4 : s[i] >= 0 /\ s[i] <= MaxOctet

\* int(IPv4Address(s))
IPv4Int(s) == ((s[1] * 256 + s[2]) * 256 + s[3]) * 256 + s[4]

\* str(IPv4Address(n))
IPv4Str(n) == << n \div (256 * 256 * 256), (n \div (256 * 256)) % 256,
                 (n \div 256) % 256, n % 256 >>

\* the one token of a string that spells an IPv6 address
IsIPv6(s) == Len(s) = 1 /\ s[1] <= 0 - 2

\* int(IPv6Address(s))
IPv6Int(s) == 0 - s[1] - 2

\* ip_address(s): the address, or ValueError (never AddressValueError: the
\* factory catches that from both address classes and raises ValueError)
ip_address(s) ==
    IF IsIPv4(s) THEN [exc |-> "none", version |-> 4, value |-> IPv4Int(s)]
    ELSE IF IsIPv6(s) THEN [exc |-> "none", version |-> 6, value |-> IPv6Int(s)]
    ELSE [exc |-> "ValueError", version |-> 0, value |-> 0]

\* validate_ip(ip_str): True, False, or the exception its handler lets through
validate_ip(s) ==
    LET r == ip_address(s) IN
    IF r.exc = "none" THEN [exc |-> "none", ret |-> TRUE]
    ELSE IF Catches("AddressValueError", r.exc) THEN [exc |-> "none", ret |-> FALSE]
    ELSE [exc |-> r.exc, ret |-> FALSE]

RECURSIVE Pow2(_)
Pow2(n) == IF n = 0 THEN 1 ELSE 2 * Pow2(n - 1)

\* ip_network(network, strict=False): the network, or ValueError
ip_network(n) ==
    LET plen == IF n.prefix = <<>> THEN MaxPrefixLen ELSE n.prefix[1]
        ok   == /\ IsIPv4(n.addr)
                /\ Len(n.prefix) <= 1
                /\ plen >= 0 /\ plen <= MaxPrefixLen
        size == Pow2(MaxPrefixLen - plen)
        base == (IPv4Int(n.addr) \div size) * size
    IN  IF ok THEN [exc |-> "none", prefixlen |-> plen,
                    network_address |-> base,
                    broadcast_address |-> base + size - 1]
        ELSE [exc |-> "ValueError", prefixlen |-> 0,
              network_address |-> 0, broadcast_address |-> 0]

\* the integers lo..hi in ascending order
RECURSIVE Range(_, _)
Range(lo, hi) == IF lo > hi THEN <<>> ELSE <<lo>> \o Range(lo + 1, hi)

\* a variant whose general case starts at the network address
hosts_FromNetworkAddress(net) ==
    IF net.prefixlen = MaxPrefixLen - 1
        THEN Range(net.network_address, net.broadcast_address)
    ELSE IF net.prefixlen = MaxPrefixLen
        THEN <<net.network_address>>
    ELSE Range(net.network_address, net.broadcast_address - 1)

\* net.hosts(): a /31 yields both addresses, a /32 its one address, any
\* other network everything between network and broadcast address
hosts(net) ==
    IF net.prefixlen = MaxPrefixLen - 1
        THEN Range(net.network_address, net.broadcast_address)
    ELSE IF net.prefixlen = MaxPrefixLen
        THEN <<net.network_address>>
    ELSE Range(net.network_address + 1, net.broadcast_address - 1)

\* [str(ip) for ip in net.hosts()]
HostStrings(net) == LET h == hosts(net) IN [i \in 1..Len(h) |-> IPv4Str(h[i])]

(***************************************************************************)
(* ping_single_ip.  The outcome of the external call is an input:          *)
(*   launched  FALSE: subprocess.run raised before the process ran         *)
(*             (spawn failure), with the exception class in failure;       *)
(*   duration  microseconds the ping process runs;                         *)
(*   returncode, time_line ("absent", "garbled" or "ok": whether stdout    *)
(*   has a 'time=' line and whether float() accepts its value),            *)
(*   parsed (the value of that line), stderr ("" or a text).               *)
(***************************************************************************)
\* a variant that cuts the call off at the ping timeout itself
Watchdog_NoGrace(timeout) == timeout * UsecPerSecond

Watchdog(timeout) == (timeout + WatchdogGrace) * UsecPerSecond

\* round((end_time - start_time) * 1000, 2), in hundredths of a millisecond
RoundedMillis(usec) == (usec + 5) \div 10

\* what subprocess.run does with the outcome: the exception it raises
RunRaises(o, timeout) ==
    IF ~o.launched THEN o.failure
    ELSE IF o.duration > Watchdog(timeout) THEN "TimeoutExpired"
    ELSE "none"

\* a variant that subtracts the clock readings the wrong way round
OnlineResponseTime_Swapped(o) ==
    IF o.time_line = "ok" THEN o.parsed ELSE 0 - RoundedMillis(o.duration)

\* the response time of a probe that exited 0
OnlineResponseTime(o) ==
    IF o.time_line = "ok" THEN o.parsed ELSE RoundedMillis(o.duration)

\* the status of a probe whose external call returned
ExitStatus(returncode) == IF returncode = 0 THEN "online" ELSE "offline"

\* a variant without the "except Exception" handler
ping_single_ip_NoCatchAll(ip, o, timeout, at) ==
    LET e == RunRaises(o, timeout) IN
    IF e = "none" THEN
        IF ExitStatus(o.returncode) = "online"
        THEN [ip |-> ip, status |-> "online",
              response_time |-> <<OnlineResponseTime(o)>>,
              error |-> <<>>, raised |-> "none", timestamp |-> at]
        ELSE [ip |-> ip, status |-> "offline", response_time |-> <<>>,
              error |-> <<IF o.stderr # "" THEN o.stderr ELSE "Host unreachable">>,
              raised |-> "none", timestamp |-> at]
    ELSE IF Catches("TimeoutExpired", e) THEN
        [ip |-> ip, status |-> "timeout", response_time |-> <<>>,
         error |-> <<"Ping timeout">>, raised |-> "none", timestamp |-> at]
    ELSE [ip |-> ip, status |-> "", response_time |-> <<>>,
          error |-> <<>>, raised |-> e, timestamp |-> at]

\* every result carries 'timestamp': datetime.now().isoformat()
ping_single_ip(ip, o, timeout, at) ==
    LET e == RunRaises(o, timeout) IN
    IF e = "none" THEN
        IF ExitStatus(o.returncode) = "online"
        THEN [ip |-> ip, status |-> "online",
              response_time |-> <<OnlineResponseTime(o)>>,
              error |-> <<>>, raised |-> "none", timestamp |-> at]
        ELSE [ip |-> ip, status |-> "offline", response_time |-> <<>>,
              error |-> <<IF o.stderr # "" THEN o.stderr ELSE "Host unreachable">>,
              raised |-> "none", timestamp |-> at]
    ELSE IF Catches("TimeoutExpired", e) THEN
        [ip |-> ip, status |-> "timeout", response_time |-> <<>>,
         error |-> <<"Ping timeout">>, raised |-> "none", timestamp |-> at]
    ELSE IF Catches("Exception", e) THEN
        [ip |-> ip, status |-> "error", response_time |-> <<>>,
         error |-> <<e>>, raised |-> "none", timestamp |-> at]
    ELSE [ip |-> ip, status |-> "", response_time |-> <<>>,
          error |-> <<>>, raised |-> e, timestamp |-> at]

\* the outcomes the external call is drawn from
Exited(rc, d, tl, p, se) ==
    [launched |-> TRUE, failure |-> "none", duration |-> d, returncode |-> rc,
     time_line |-> tl, parsed |-> p, stderr |-> se]

SpawnFailed(e) ==
    [launched |-> FALSE, failure |-> e, duration |-> 0, returncode |-> 0,
     time_line |-> "absent", parsed |-> 0, stderr |-> ""]

ProbeOutcomes ==
    { Exited(0, 12304, "ok", 1190, ""),
      Exited(0, 12304, "absent", 0, ""),
      Exited(0, 12304, "garbled", 0, ""),
      Exited(1, 4000000, "absent", 0, ""),
      Exited(2, 1000, "absent", 0, "ping: connect: Network is unreachable"),
      Exited(0, 9000000, "ok", 1190, ""),
      Exited(1, 9000000, "absent", 0, ""),
      SpawnFailed("FileNotFoundError") }

\* one outcome of each kind: a host that answers, one that does not, a ping
\* that hangs, a ping that cannot be launched
OutcomeKinds ==
    { Exited(0, 12304, "ok", 1190, ""),
      Exited(1, 4000000, "absent", 0, ""),
      Exited(0, 9000000, "ok", 1190, ""),
      SpawnFailed("FileNotFoundError") }

\* a smaller environment: a host that answers, one that does not, one that hangs
FewOutcomes ==
    { Exited(0, 12304, "ok", 1190, ""),
      Exited(1, 4000000, "absent", 0, ""),
      Exited(0, 9000000, "ok", 1190, "") }

(***************************************************************************)
(* ping_multiple_ips: a ThreadPoolExecutor of max_workers threads, one     *)
(* future per element of ip_list, results collected as they complete.      *)
(***************************************************************************)
Futures == 1..nsub

Pending == {i \in Futures : fstate[i] = "pending"}
Running == {i \in Futures : fstate[i] = "running"}
Finished == {i \in Futures : fstate[i] = "finished"}

\* the clock d seconds after t; it stops advancing at the horizon of the run
Later(t, d) == IF t + d > mon.horizon THEN mon.horizon ELSE t + d

\* the time a dispatch takes, from its first submit to its return
DispatchTimes == IF caller = "monitor" THEN 0..mon.max_dispatch ELSE {0}

\* a variant that returns as soon as one future has been collected
AllCollected_First == collected # {} \/ nsub = 0

\* as_completed is exhausted and the with block has waited for every future
AllCollected == collected = Futures

\* a variant that starts a thread for every work item
WorkerAvailable_Unbounded == TRUE

\* the executor runs a queued work item only on one of its max_workers threads
WorkerAvailable == Cardinality(Running) < max_workers

\* the work queue is first in, first out
NextQueued == CHOOSE i \in Pending : \A j \in Pending : i <= j

\* a variant that leaves failed probes out of the snapshot
StoreResult_SkipErrors(res, r) ==
    IF r.status = "error" THEN res
    ELSE [k \in DOMAIN res \cup {r.ip} |-> IF k = r.ip THEN r ELSE res[k]]

\* results[result['ip']] = result
StoreResult(res, r) ==
    [k \in DOMAIN res \cup {r.ip} |-> IF k = r.ip THEN r ELSE res[k]]

\* entry of ping_multiple_ips(list, workers) on behalf of who
CallPingMultiple(list, workers, who) ==
    /\ pc' = "pm_submit"
    /\ caller' = who
    /\ pm_ip_list' = list
    /\ max_workers' = workers
    /\ nsub' = 0
    /\ fstate' = <<>>
    /\ fresult' = <<>>
    /\ collected' = {}
    /\ results' = <<>>

\* executor.submit(self.ping_single_ip, ip) for the next ip of ip_list
Submit ==
    /\ pc = "pm_submit"
    /\ nsub < Len(pm_ip_list)
    /\ nsub' = nsub + 1
    /\ fstate' = Append(fstate, "pending")
    /\ fresult' = Append(fresult, <<>>)
    /\ UNCHANGED <<pc, exc, args, ti, ip_list, stdout, outcomes, now, mon, xp, caller, pm_ip_list,
                   max_workers, collected, results, ret, table>>

\* a worker thread takes the oldest queued work item
WorkerStart ==
    /\ pc \in {"pm_submit", "pm_shutdown"}
    /\ Pending # {}
    /\ WorkerAvailable
    /\ fstate' = [fstate EXCEPT ![NextQueued] = "running"]
    /\ UNCHANGED <<pc, exc, args, ti, ip_list, stdout, outcomes, now, mon, xp, caller, pm_ip_list,
                   max_workers, nsub, fresult, collected, results, ret, table>>

\* a worker thread comes back from ping_single_ip
ProbeFinish ==
    /\ pc \in {"pm_submit", "pm_shutdown"}
    /\ \E i \in Running, o \in outcomes :
        /\ fstate' = [fstate EXCEPT ![i] = "finished"]
        /\ fresult' = [fresult EXCEPT
                         ![i] = <<[o |-> o,
                                   r |-> ping_single_ip(pm_ip_list[i], o, DefaultTimeout,
                                                       now)]>>]
    /\ UNCHANGED <<pc, exc, args, ti, ip_list, stdout, outcomes, now, mon, xp, caller, pm_ip_list,
                   max_workers, nsub, collected, results, ret, table>>

\* one turn of "for future in as_completed(future_to_ip)": future.result()
\* returns the result or raises what the call raised
Collect ==
    /\ pc = "pm_submit"
    /\ nsub = Len(pm_ip_list)
    /\ \E i \in Finished \ collected :
        LET r == fresult[i][1].r IN
        /\ collected' = collected \cup {i}
        /\ IF r.raised = "none"
              THEN /\ results' = StoreResult(results, r)
                   /\ UNCHANGED <<pc, exc>>
              ELSE /\ pc' = "raised"
                   /\ exc' = r.raised
                   /\ UNCHANGED results
    /\ UNCHANGED <<args, ti, ip_list, stdout, outcomes, now, mon, xp, caller,
                   pm_ip_list, max_workers,
                   nsub, fstate, fresult, ret, table>>

\* the with block ends (every future is done) and "return results"
PmReturn ==
    /\ pc = "pm_submit"
    /\ nsub = Len(pm_ip_list)
    /\ AllCollected
    /\ pc' = CASE caller = "main"    -> "main_print"
             [] caller = "monitor" -> "mon_print"
             [] OTHER              -> "done"
    /\ ret' = IF caller \in {"main", "monitor"} THEN ret ELSE <<results>>
    /\ \E d \in DispatchTimes : now' = Later(now, d)
    /\ UNCHANGED <<exc, args, ti, ip_list, stdout, outcomes, mon, xp, caller, pm_ip_list,
                   max_workers, nsub, fstate, fresult, collected, results, table>>

(***************************************************************************)
(* ping_multiple_ips called on its own.                                    *)
(***************************************************************************)
IP_10_0_0_5 == <<10, 0, 0, 5>>
IP_10_0_0_10 == <<10, 0, 0, 10>>
IP_10_0_0_2 == <<10, 0, 0, 2>>
NotAnIp == <<-1>>
Blank == <<>>

Addresses == {IP_10_0_0_5, IP_10_0_0_10}

SeqsUpTo(S, n) == UNION {[1..k -> S] : k \in 0..n}

NoArgs ==
    [targets |-> <<>>, network |-> <<>>, file |-> <<>>, workers |-> 1,
     monitor |-> FALSE, interval |-> DefaultInterval, duration |-> <<>>]

\* no monitor session: continuous_monitor is not called in this run
NoMonitor ==
    [state |-> "idle", interval |-> 0, duration |-> <<>>, start_time |-> 0,
     cycle |-> 0, completed |-> 0, reported |-> <<>>,
     cycle_start |-> <<>>, cycle_end |-> <<>>, prev_start |-> <<>>,
     prev_end |-> <<>>, int_at |-> "", int_cycle |-> 0, horizon |-> 0,
     max_dispatch |-> 0]

\* no export: export_results is not called in this run
NoExport ==
    [called |-> FALSE, format_type |-> "", writable |-> TRUE, file |-> <<>>,
     returned |-> <<>>, raised |-> "none"]

InitCommon ==
    /\ exc = "none"
    /\ ti = 1
    /\ ip_list = <<>>
    /\ stdout = <<>>
    /\ nsub = 0
    /\ fstate = <<>>
    /\ fresult = <<>>
    /\ collected = {}
    /\ results = <<>>
    /\ ret = <<>>
    /\ table = <<>>
    /\ now = 0
    /\ mon = NoMonitor
    /\ xp = NoExport

InitDispatch ==
    /\ InitCommon
    /\ pc = "pm_submit"
    /\ caller = "direct"
    /\ args = NoArgs
    /\ outcomes = OutcomeKinds
    /\ pm_ip_list \in SeqsUpTo(Addresses, MaxTargets)
    /\ max_workers \in 1..MaxWorkers

NextDispatch == Submit \/ WorkerStart \/ ProbeFinish \/ Collect \/ PmReturn

SpecDispatch == InitDispatch /\ [][NextDispatch]_vars

\* the same call with every outcome of the external ping drawn
InitProbe ==
    /\ InitCommon
    /\ pc = "pm_submit"
    /\ caller = "direct"
    /\ args = NoArgs
    /\ outcomes = ProbeOutcomes
    /\ pm_ip_list \in SeqsUpTo(Addresses, MaxProbes)
    /\ max_workers \in 1..MaxWorkers

SpecProbe == InitProbe /\ [][NextDispatch]_vars

\* the addresses handed to ping_multiple_ips
Submitted == {pm_ip_list[i] : i \in 1..Len(pm_ip_list)}

Statuses == {"online", "offline", "timeout", "error"}

\* C1: when ping_multiple_ips has returned, the keys of the snapshot are
\* exactly the submitted addresses, and each key holds a result for that
\* address, whatever the probes' outcomes and completion order were.
C1_SnapshotKeysAreSubmitted ==
    (pc = "done" /\ caller = "direct") =>
        /\ ret # <<>>
        /\ DOMAIN ret[1] = Submitted
        /\ \A k \in DOMAIN ret[1] : ret[1][k].ip = k /\ ret[1][k].status \in Statuses

\* a dispatch of three targets, one of them twice, has returned with an
\* online and an error result
C1_Witness ==
    /\ pc = "done" /\ caller = "direct"
    /\ Len(pm_ip_list) = 3 /\ Cardinality(Submitted) = 2
    /\ ret[1][IP_10_0_0_5].status = "error"
    /\ ret[1][IP_10_0_0_10].status = "online"

\* C2: every call of ping_single_ip that has come back returned a result
\* for its address with one of the four statuses, it raised nothing, and
\* no exception reaches the dispatcher, whether ping exited 0, exited
\* non-zero, ran into the watchdog or could not be launched.
C2_ProbeAlwaysReturnsResult ==
    /\ pc # "raised" /\ exc = "none"
    /\ \A i \in Finished :
          /\ fresult[i][1].r.raised = "none"
          /\ fresult[i][1].r.ip = pm_ip_list[i]
          /\ fresult[i][1].r.status \in Statuses

\* a ping that could not be launched and one cut off by the watchdog have
\* both come back as results and been collected
C2_Witness ==
    /\ pc = "done"
    /\ \E i, j \in Finished :
          /\ ~fresult[i][1].o.launched
          /\ fresult[j][1].o.launched
          /\ fresult[j][1].o.duration > (DefaultTimeout + WatchdogGrace) * UsecPerSecond
          /\ {i, j} \subseteq collected

\* C3: a result carries a response time only with status online, and then
\* it is >= 0; an online result always carries one; offline, timeout and
\* error results carry none, and a call cut off by the watchdog gives
\* status timeout without a response time.
C3_ResponseTimeOnlyWhenOnline ==
    \A i \in Finished :
        LET r == fresult[i][1].r
            o == fresult[i][1].o
        IN  /\ r.response_time # <<>> => r.status = "online" /\ r.response_time[1] >= 0
            /\ r.status = "online" => r.response_time # <<>>
            /\ r.status \in {"offline", "timeout", "error"} => r.response_time = <<>>
            /\ (o.launched /\ o.duration > (DefaultTimeout + WatchdogGrace) * UsecPerSecond)
                 => r.status = "timeout" /\ r.response_time = <<>>

\* an online result whose time is the measured wall-clock time, beside a
\* result of a call the watchdog cut off
C3_Witness ==
    \E i, j \in Finished :
        /\ fresult[i][1].r.status = "online"
        /\ fresult[i][1].o.time_line # "ok"
        /\ fresult[i][1].r.response_time = <<1230>>
        /\ fresult[j][1].r.status = "timeout"
        /\ fresult[j][1].o.returncode = 0

\* C4: the status is decided by the outcome of the external call alone:
\* exit 0 within the watchdog gives online, a non-zero exit within the
\* watchdog offline, a run longer than timeout + 5 seconds timeout, and a
\* call that raised anything else error.
C4_StatusFromOutcome ==
    \A i \in Finished :
        LET r == fresult[i][1].r
            o == fresult[i][1].o
            cut == o.duration > (DefaultTimeout + WatchdogGrace) * UsecPerSecond
        IN  r.status = IF ~o.launched THEN "error"
                       ELSE IF cut THEN "timeout"
                       ELSE IF o.returncode = 0 THEN "online"
                       ELSE "offline"

\* two probes, one that exited non-zero after 4 seconds (past the ping
\* timeout, within the watchdog) and one that could not be launched
C4_Witness ==
    \E i, j \in Finished :
        /\ fresult[i][1].o.launched /\ fresult[i][1].o.returncode # 0
        /\ fresult[i][1].o.duration > DefaultTimeout * UsecPerSecond
        /\ fresult[i][1].r.status = "offline"
        /\ fresult[j][1].r.status = "error"

\* C10: never more than max_workers probes run at once, and no result is
\* collected before every target has been submitted.
C10_AtMostMaxWorkersRunning ==
    /\ Cardinality(Running) <= max_workers
    /\ collected # {} => nsub = Len(pm_ip_list)

\* every target is submitted, max_workers of them run, one has finished
\* and another still waits for a worker
C10_Witness ==
    /\ nsub = Len(pm_ip_list)
    /\ Len(pm_ip_list) > max_workers
    /\ Cardinality(Running) = max_workers
    /\ Finished # {}
    /\ Pending # {}

(***************************************************************************)
(* ping_network_range(network, max_workers).                               *)
(***************************************************************************)
\* what ping_network_range runs into before it dispatches: "none", an
\* exception its handler catches ("handled"), or the exception it lets out
RangeFailure(n) ==
    LET net == ip_network(n) IN
    IF net.exc = "none" THEN "none"
    ELSE IF Catches("AddressValueError", net.exc) THEN "handled"
    ELSE net.exc

\* the size warning for more than 254 hosts
RangeWarning(list) ==
    IF Len(list) > 254 THEN <<[msg |-> "Warning: Network contains hosts"]>> ELSE <<>>

PingNetworkRange ==
    /\ pc = "range"
    /\ LET n == args.network[1]
           f == RangeFailure(n)
           list == HostStrings(ip_network(n))
       IN  IF f = "none" THEN
               /\ stdout' = stdout \o RangeWarning(list)
               /\ CallPingMultiple(list, args.workers, caller)
               /\ UNCHANGED <<exc, ret>>
           ELSE IF f = "handled" THEN
               /\ stdout' = Append(stdout, [msg |-> "Invalid network range"])
               /\ pc' = IF caller = "main" THEN "main_print" ELSE "done"
               /\ ret' = IF caller = "main" THEN ret ELSE << <<>> >>
               /\ results' = <<>>
               /\ UNCHANGED <<exc, caller, pm_ip_list, max_workers, nsub,
                              fstate, fresult, collected>>
           ELSE
               /\ pc' = "raised"
               /\ exc' = f
               /\ UNCHANGED <<stdout, ret, caller, pm_ip_list, max_workers,
                              nsub, fstate, fresult, collected, results>>
    /\ UNCHANGED <<args, ti, ip_list, outcomes, now, mon, xp, table>>

Net(addr, prefix) == [addr |-> addr, prefix |-> prefix]

NetworkAddrs == {<<10, 0, 0, 0>>, IP_10_0_0_5, NotAnIp}

\* prefixes from 32 - MaxHostBits up to 33 (one too long), or none at all
NetworkPrefixes == {<<>>} \cup {<<p>> : p \in (MaxPrefixLen - MaxHostBits)..(MaxPrefixLen + 1)}

Networks == {Net(a, p) : a \in NetworkAddrs, p \in NetworkPrefixes}

InitRange ==
    /\ InitCommon
    /\ pc = "range"
    /\ caller = "range"
    /\ \E n \in Networks, w \in 1..MaxWorkers :
          args = [targets |-> <<>>, network |-> <<n>>, file |-> <<>>, workers |-> w]
    /\ outcomes = FewOutcomes
    /\ pm_ip_list = <<>>
    /\ max_workers = args.workers

NextRange ==
    PingNetworkRange \/ Submit \/ WorkerStart \/ ProbeFinish \/ Collect \/ PmReturn

SpecRange == InitRange /\ [][NextRange]_vars

\* the network string of the call, read independently of ip_network
GivenNetwork == args.network[1]
GivenPrefix == IF GivenNetwork.prefix = <<>> THEN 32 ELSE GivenNetwork.prefix[1]
GivenIsValid ==
    /\ Len(GivenNetwork.addr) = 4
    /\ \A i \in 1..4 : GivenNetwork.addr[i] \in 0..255
    /\ GivenPrefix \in 0..32
GivenAddr ==
    GivenNetwork.addr[1] * 16777216 + GivenNetwork.addr[2] * 65536
        + GivenNetwork.addr[3] * 256 + GivenNetwork.addr[4]
GivenSize == Pow2(32 - GivenPrefix)

\* a is an address of the given range: it agrees with the given address on
\* the prefix bits
InGivenRange(a) == a \div GivenSize = GivenAddr \div GivenSize

\* the addresses around the given one, wide enough to hold its range
Window == (GivenAddr - Pow2(MaxHostBits))..(GivenAddr + Pow2(MaxHostBits))

Dotted(a) == <<a \div 16777216, (a \div 65536) % 256, (a \div 256) % 256, a % 256>>

\* how often the expansion holds address a
Occurrences(a) == Cardinality({i \in 1..Len(pm_ip_list) : pm_ip_list[i] = Dotted(a)})

\* every element of the expansion is an address of the window
ExpansionInWindow ==
    \A i \in 1..Len(pm_ip_list) : \E a \in Window : pm_ip_list[i] = Dotted(a)

\* ping_network_range has expanded a valid network and is about to hand
\* the list to ping_multiple_ips, which never changes it
Expanded == caller = "range" /\ pc = "pm_submit" /\ nsub = 0 /\ GivenIsValid

\* the expansion is the range without its first and its last address
ExpansionIsUsableHosts ==
    /\ ExpansionInWindow
    /\ \A a \in Window :
          Occurrences(a) = IF /\ InGivenRange(a)
                              /\ InGivenRange(a - 1)
                              /\ InGivenRange(a + 1)
                           THEN 1 ELSE 0

\* the expansion is the whole range
ExpansionIsWholeRange ==
    /\ ExpansionInWindow
    /\ \A a \in Window : Occurrences(a) = IF InGivenRange(a) THEN 1 ELSE 0

\* C7 as stated: for every valid range, of every prefix length, the
\* expansion holds every address of the range exactly once except the
\* network and the broadcast address, and leaves out exactly those two.
C7_Original == Expanded => ExpansionIsUsableHosts

\* C7 amended: for a prefix length of at most 30 the expansion holds every
\* address of the range exactly once except the network and the broadcast
\* address; a /31 and a /32 expand to all of their addresses.
C7_HostsOfRange ==
    Expanded => IF GivenPrefix <= 30 THEN ExpansionIsUsableHosts
                ELSE ExpansionIsWholeRange

\* 10.0.0.5/30 has been expanded to 10.0.0.5 and 10.0.0.6
C7_Witness ==
    /\ Expanded
    /\ GivenNetwork = Net(IP_10_0_0_5, <<30>>)
    /\ pm_ip_list = <<IP_10_0_0_5, <<10, 0, 0, 6>> >>

\* C8: called with a string that is no valid network, ping_network_range
\* prints the error and returns an empty dict: nothing is raised and
\* nothing is probed.
C8_InvalidNetworkGivesEmptyResult ==
    (caller = "range" /\ pc # "range" /\ ~GivenIsValid) =>
        /\ pc = "done"
        /\ exc = "none"
        /\ ret = << <<>> >>
        /\ nsub = 0
        /\ \E i \in 1..Len(stdout) : stdout[i].msg = "Invalid network range"

(***************************************************************************)
(* print_results(results).                                                 *)
(***************************************************************************)
\* what sorted(results.items(), key=lambda x: ip_address(x[0])) raises: an
\* IPv4Address and an IPv6Address do not compare ("not of the same
\* version"), and a sort of keys of both versions has to compare two of them
PrintRaises(res) ==
    IF \E a, b \in DOMAIN res : ip_address(a).version # ip_address(b).version
    THEN "TypeError" ELSE "none"

\* sorted(keys, key=ip_address), for keys of one version
RECURSIVE SortedByAddress(_)
SortedByAddress(S) ==
    IF S = {} THEN <<>>
    ELSE LET m == CHOOSE x \in S : \A y \in S : ip_address(x).value <= ip_address(y).value
         IN  <<m>> \o SortedByAddress(S \ {m})

\* the response time column: a value that is None or 0 prints as N/A
ResponseTimeText(r) ==
    IF r.response_time = <<>> \/ r.response_time = <<0>> THEN <<>> ELSE r.response_time

CountStatus(res, S) == Cardinality({k \in DOMAIN res : res[k].status \in S})

print_results(res) ==
    IF DOMAIN res = {} THEN <<[msg |-> "No results to display"]>>
    ELSE LET keys == SortedByAddress(DOMAIN res) IN
         [i \in 1..Len(keys) |->
             [ip |-> keys[i], status |-> res[keys[i]].status,
              response_time |-> ResponseTimeText(res[keys[i]])]]
         \o <<[msg |-> "Summary",
               online |-> CountStatus(res, {"online"}),
               offline |-> CountStatus(res, {"offline"}),
               errors |-> CountStatus(res, {"timeout", "error"})]>>

(***************************************************************************)
(* main (args.output not given).                                           *)
(***************************************************************************)
\* one turn of "for target in args.targets"
MainTarget ==
    /\ pc = "main_targets"
    /\ ti <= Len(args.targets)
    /\ LET target == args.targets[ti]
           v == validate_ip(target)
       IN  IF v.exc # "none" THEN
               /\ pc' = "raised"
               /\ exc' = v.exc
               /\ UNCHANGED <<ti, ip_list, stdout>>
           ELSE IF v.ret THEN
               /\ ip_list' = Append(ip_list, target)
               /\ ti' = ti + 1
               /\ UNCHANGED <<pc, exc, stdout>>
           ELSE
               /\ stdout' = Append(stdout, [msg |-> "Warning: not a valid IP address",
                                            arg |-> target])
               /\ ti' = ti + 1
               /\ UNCHANGED <<pc, exc, ip_list>>
    /\ UNCHANGED <<args, outcomes, now, mon, xp, caller, pm_ip_list, max_workers, nsub, fstate,
                   fresult, collected, results, ret, table>>

\* "if args.network:" taken: main calls ping_network_range
MainNetwork ==
    /\ pc = "main_targets"
    /\ ti > Len(args.targets)
    /\ args.network # <<>>
    /\ stdout' = Append(stdout, [msg |-> "Scanning network range"])
    /\ pc' = "range"
    /\ caller' = "main"
    /\ UNCHANGED <<exc, args, ti, ip_list, outcomes, now, mon, xp, pm_ip_list, max_workers, nsub,
                   fstate, fresult, collected, results, ret, table>>

\* the first exception the comprehension over the file's lines runs into
RECURSIVE FileRaises(_)
FileRaises(lines) ==
    IF lines = <<>> THEN "none"
    ELSE IF Head(lines) # <<>> /\ validate_ip(Head(lines)).exc # "none"
        THEN validate_ip(Head(lines)).exc
    ELSE FileRaises(Tail(lines))

\* [line.strip() for line in f if line.strip() and validate_ip(line.strip())]
FileIps(lines) == SelectSeq(lines, LAMBDA l : l # <<>> /\ validate_ip(l).ret)

\* what main does when the file cannot be opened: TRUE if it goes on to the
\* targets it has, FALSE if it returns
ContinueWithoutFile == FALSE

\* "if args.file:" with its try block
MainFile ==
    /\ pc = "main_targets"
    /\ ti > Len(args.targets)
    /\ args.network = <<>>
    /\ IF args.file = <<>> THEN
           /\ pc' = "main_check"
           /\ UNCHANGED <<exc, ip_list, stdout>>
       ELSE IF ~args.file[1].exists THEN
           /\ stdout' = Append(stdout, [msg |-> "Error: File not found"])
           /\ pc' = IF ContinueWithoutFile THEN "main_check" ELSE "done"
           /\ UNCHANGED <<exc, ip_list>>
       ELSE IF FileRaises(args.file[1].lines) # "none" THEN
           /\ pc' = "raised"
           /\ exc' = FileRaises(args.file[1].lines)
           /\ UNCHANGED <<ip_list, stdout>>
       ELSE
           /\ ip_list' = ip_list \o FileIps(args.file[1].lines)
           /\ stdout' = Append(stdout, [msg |-> "Loaded IP addresses from file",
                                        n |-> Len(FileIps(args.file[1].lines))])
           /\ pc' = "main_check"
           /\ UNCHANGED exc
    /\ UNCHANGED <<args, ti, outcomes, now, mon, xp, caller, pm_ip_list, max_workers, nsub, fstate,
                   fresult, collected, results, ret, table>>

\* the session continuous_monitor(ip_list, interval, duration) starts with:
\* start_time = time.time(), cycle = 1
NewSession(interval, duration, horizon, max_dispatch) ==
    [NoMonitor EXCEPT !.state = "running", !.interval = interval,
                      !.duration = duration, !.start_time = now, !.cycle = 1,
                      !.horizon = horizon, !.max_dispatch = max_dispatch]

\* "if not ip_list:", then "if args.monitor:" with the call of
\* continuous_monitor(ip_list, args.interval, args.duration), or the single
\* ping cycle with ping_multiple_ips(ip_list, args.workers)
MainDispatch ==
    /\ pc = "main_check"
    /\ IF ip_list = <<>> THEN
           /\ stdout' = Append(stdout, [msg |-> "No IP addresses specified"])
           /\ pc' = "done"
           /\ UNCHANGED <<caller, pm_ip_list, max_workers, nsub, fstate, fresult,
                          collected, results, mon>>
       ELSE IF args.monitor THEN
           /\ stdout' = stdout
                  \o <<[msg |-> "Pinging IP addresses", n |-> Len(ip_list)],
                       [msg |-> "Starting continuous monitoring",
                        n |-> args.interval]>>
                  \o IF args.duration # <<>> /\ args.duration[1] # 0
                     THEN <<[msg |-> "Duration", n |-> args.duration[1]]>>
                     ELSE <<>>
           /\ mon' = NewSession(args.interval, args.duration, MaxTime,
                                MaxDispatchTime)
           /\ pc' = "mon_top"
           /\ caller' = "monitor"
           /\ UNCHANGED <<pm_ip_list, max_workers, nsub, fstate, fresult,
                          collected, results>>
       ELSE
           /\ stdout' = Append(stdout, [msg |-> "Pinging IP addresses",
                                        n |-> Len(ip_list)])
           /\ CallPingMultiple(ip_list, args.workers, "main")
           /\ UNCHANGED mon
    /\ UNCHANGED <<exc, args, ti, ip_list, outcomes, now, xp, ret, table>>

\* pinger.print_results(results, args.verbose), then main returns
MainPrint ==
    /\ pc = "main_print"
    /\ IF PrintRaises(results) = "none"
          THEN /\ table' = print_results(results)
               /\ pc' = "done"
               /\ UNCHANGED exc
          ELSE /\ pc' = "raised"
               /\ exc' = PrintRaises(results)
               /\ UNCHANGED table
    /\ UNCHANGED <<args, ti, ip_list, stdout, outcomes, now, mon, xp, caller, pm_ip_list,
                   max_workers, nsub, fstate, fresult, collected, results, ret>>

RawStrings == {IP_10_0_0_5, IP_10_0_0_10, NotAnIp}

FileLines == {IP_10_0_0_5, IP_10_0_0_2, Blank, NotAnIp}

Files == {[exists |-> FALSE, lines |-> <<>>]}
         \cup {[exists |-> TRUE, lines |-> l] : l \in SeqsUpTo(FileLines, MaxFileLines)}

MainNetworks == {Net(IP_10_0_0_5, <<MaxPrefixLen - 2>>), Net(NotAnIp, <<>>)}

InitMain ==
    /\ InitCommon
    /\ pc = "main_targets"
    /\ caller = "main"
    /\ \E t \in SeqsUpTo(RawStrings, MaxArgs),
          n \in {<<>>} \cup {<<x>> : x \in MainNetworks},
          f \in {<<>>} \cup {<<x>> : x \in Files},
          w \in 1..MaxWorkers :
          args = [NoArgs EXCEPT !.targets = t, !.network = n, !.file = f,
                                !.workers = w]
    /\ outcomes = FewOutcomes
    /\ pm_ip_list = <<>>
    /\ max_workers = args.workers

NextMain ==
    \/ MainTarget \/ MainNetwork \/ MainFile \/ MainDispatch \/ MainPrint
    \/ PingNetworkRange \/ Submit \/ WorkerStart \/ ProbeFinish \/ Collect \/ PmReturn

SpecMain == InitMain /\ [][NextMain]_vars

\* the literal targets main has been through so far
TargetsSeen == 1..(IF ti <= Len(args.targets) THEN ti - 1 ELSE Len(args.targets))

ValidAddress(s) == Len(s) = 4 /\ \A i \in 1..4 : s[i] \in 0..255

\* calls of ping_single_ip made so far for address a
ProbesOf(a) == {i \in Futures : pm_ip_list[i] = a /\ fstate[i] # "pending"}

\* C5: an address that occurs more than once among the resolved inputs is
\* probed once in a dispatch: ping_single_ip runs at most once per address.
C5_EachAddressProbedOnce ==
    \A a \in Submitted : Cardinality(ProbesOf(a)) <= 1

\* C6: an invalid address string does not abort resolution: main does not
\* die on an invalid literal target or file line; an invalid literal is
\* warned about and left out of ip_list, and main goes on.
C6_InvalidAddressRejected ==
    /\ \A i \in 1..Len(args.targets) :
          ~ValidAddress(args.targets[i]) =>
              /\ ~(pc = "raised" /\ ti = i)
              /\ i \in TargetsSeen =>
                    /\ \E j \in 1..Len(stdout) :
                          stdout[j] = [msg |-> "Warning: not a valid IP address",
                                       arg |-> args.targets[i]]
                    /\ \A j \in 1..Len(ip_list) : ip_list[j] # args.targets[i]
    /\ (args.network = <<>> /\ args.file # <<>>) => pc # "raised"

\* C9: when the address file does not exist, the valid literal targets of
\* the same invocation are still dispatched and reported: main does not
\* end before it has printed a row for each of them.
C9_MissingFileKeepsLiterals ==
    (/\ pc = "done"
     /\ args.network = <<>>
     /\ args.file # <<>> /\ ~args.file[1].exists
     /\ ip_list # <<>>)
    => /\ DOMAIN results = {ip_list[i] : i \in 1..Len(ip_list)}
       /\ \A i \in 1..Len(ip_list) : \E j \in 1..Len(table) :
             "ip" \in DOMAIN table[j] /\ table[j].ip = ip_list[i]

(***************************************************************************)
(* continuous_monitor(ip_list, interval, duration).  The header line of a  *)
(* cycle is not recorded; the two closing messages are.  A dispatch takes  *)
(* between 0 and max_dispatch seconds; printing and the duration test take *)
(* no time, and time.sleep returns after exactly the time asked for.       *)
(* The fields cycle_start, cycle_end, prev_start, prev_end, completed,     *)
(* reported, int_at, int_cycle and state of mon are what an observer of    *)
(* the session records; the code has no such variables.                    *)
(***************************************************************************)
Min(a, b) == IF a < b THEN a ELSE b

\* a variant of the duration test with > for >=
DurationReached_Strict(duration, elapsed) ==
    duration # <<>> /\ duration[1] # 0 /\ elapsed > duration[1]

\* "duration and (time.time() - start_time) >= duration": None and 0 are
\* both false
DurationReached(duration, elapsed) ==
    duration # <<>> /\ duration[1] # 0 /\ elapsed >= duration[1]

\* a variant that sleeps what is left of the interval after the dispatch
SleepTime_Remainder(interval, elapsed) ==
    IF interval - elapsed > 0 THEN interval - elapsed ELSE 0

\* time.sleep(interval); elapsed is the time the cycle took
SleepTime(interval, elapsed) == interval

\* the top of "while True": the cycle's header, then
\* self.ping_multiple_ips(ip_list) with the default max_workers
MonCycleStart ==
    /\ pc = "mon_top"
    /\ mon' = [mon EXCEPT !.cycle_start = <<now>>, !.cycle_end = <<>>,
                          !.prev_start = mon.cycle_start,
                          !.prev_end = mon.cycle_end]
    /\ CallPingMultiple(ip_list, DefaultMaxWorkers, "monitor")
    /\ UNCHANGED <<exc, args, ti, ip_list, stdout, outcomes, ret, table, now, xp>>

\* self.print_results(results)
MonPrint ==
    /\ pc = "mon_print"
    /\ IF PrintRaises(results) = "none"
          THEN /\ table' = print_results(results)
               /\ mon' = [mon EXCEPT
                            !.completed = Min(mon.completed + 1, MaxCycles),
                            !.cycle_end = <<now>>]
               /\ pc' = "mon_check"
               /\ UNCHANGED exc
          ELSE /\ pc' = "raised"
               /\ exc' = PrintRaises(results)
               /\ UNCHANGED <<table, mon>>
    /\ UNCHANGED <<args, ti, ip_list, stdout, outcomes, caller, pm_ip_list,
                   max_workers, nsub, fstate, fresult, collected, results, ret,
                   now, xp>>

\* the duration test: break, or "cycle += 1"
MonCheck ==
    /\ pc = "mon_check"
    /\ IF DurationReached(mon.duration, now - mon.start_time)
          THEN /\ stdout' = Append(stdout, [msg |-> "Monitoring completed",
                                            n |-> mon.duration[1]])
               /\ mon' = [mon EXCEPT !.state = "completed"]
               /\ pc' = "done"
          ELSE /\ mon' = [mon EXCEPT !.cycle = Min(mon.cycle + 1, MaxCycles)]
               /\ pc' = "mon_sleep"
               /\ UNCHANGED stdout
    /\ UNCHANGED <<exc, args, ti, ip_list, outcomes, caller, pm_ip_list,
                   max_workers, nsub, fstate, fresult, collected, results, ret,
                   table, now, xp>>

\* time.sleep(interval) returns
MonWake ==
    /\ pc = "mon_sleep"
    /\ now' = Later(now, SleepTime(mon.interval,
                                   mon.cycle_end[1] - mon.cycle_start[1]))
    /\ pc' = "mon_top"
    /\ UNCHANGED <<exc, args, ti, ip_list, stdout, outcomes, caller, pm_ip_list,
                   max_workers, nsub, fstate, fresult, collected, results, ret,
                   table, mon, xp>>

\* KeyboardInterrupt is raised in the main thread, wherever inside the try
\* block it is.  Inside ping_multiple_ips the exception first leaves the
\* with block, whose exit waits for the executor's threads.
Interrupt ==
    /\ mon.state = "running"
    /\ mon.int_at = ""
    /\ pc \in {"mon_top", "pm_submit", "mon_print", "mon_check", "mon_sleep"}
    /\ mon' = [mon EXCEPT !.int_at = pc, !.int_cycle = mon.cycle]
    /\ pc' = IF pc = "pm_submit" THEN "pm_shutdown" ELSE "mon_except"
    /\ UNCHANGED <<exc, args, ti, ip_list, stdout, outcomes, caller, pm_ip_list,
                   max_workers, nsub, fstate, fresult, collected, results, ret,
                   table, now, xp>>

\* executor.shutdown(wait=True) returns: every submitted work item has run
PmShutdown ==
    /\ pc = "pm_shutdown"
    /\ Pending = {} /\ Running = {}
    /\ pc' = "mon_except"
    /\ UNCHANGED <<exc, args, ti, ip_list, stdout, outcomes, caller, pm_ip_list,
                   max_workers, nsub, fstate, fresult, collected, results, ret,
                   table, now, mon, xp>>

\* "except KeyboardInterrupt": the closing message with cycle-1
MonExcept ==
    /\ pc = "mon_except"
    /\ stdout' = Append(stdout, [msg |-> "Monitoring stopped by user",
                                 n |-> mon.cycle - 1])
    /\ mon' = [mon EXCEPT !.state = "cancelled", !.reported = <<mon.cycle - 1>>]
    /\ pc' = "done"
    /\ UNCHANGED <<exc, args, ti, ip_list, outcomes, caller, pm_ip_list,
                   max_workers, nsub, fstate, fresult, collected, results, ret,
                   table, now, xp>>

\* the environment of a monitor run: a host that answers and one that does not
MonitorOutcomes ==
    { Exited(0, 12304, "ok", 1190, ""),
      Exited(1, 4000000, "absent", 0, "") }

\* continuous_monitor has just set start_time and cycle
MonitorCall(list, interval, duration, horizon, max_dispatch) ==
    /\ ip_list = list
    /\ mon = NewSession(interval, duration, horizon, max_dispatch)

MonitorLists == {<<IP_10_0_0_5>>, <<IP_10_0_0_5, IP_10_0_0_10>>}

InitMonitor ==
    /\ exc = "none"
    /\ ti = 1
    /\ stdout = <<>>
    /\ nsub = 0
    /\ fstate = <<>>
    /\ fresult = <<>>
    /\ collected = {}
    /\ results = <<>>
    /\ ret = <<>>
    /\ table = <<>>
    /\ now = 0
    /\ xp = NoExport
    /\ args = NoArgs
    /\ outcomes = MonitorOutcomes
    /\ pc = "mon_top"
    /\ caller = "monitor"
    /\ pm_ip_list = <<>>
    /\ max_workers = DefaultMaxWorkers
    /\ \/ \E list \in MonitorLists, i \in 1..MaxInterval,
             d \in {<<>>} \cup {<<x>> : x \in 0..MaxDuration} :
             MonitorCall(list, i, d, MaxTime, MaxDispatchTime)
       \/ MonitorCall(<<IP_10_0_0_5>>, 10, <<25>>, 45, 9)

MonitorSteps ==
    \/ MonCycleStart \/ Submit \/ WorkerStart \/ ProbeFinish \/ Collect
    \/ PmReturn \/ MonPrint \/ MonCheck \/ MonWake

NextMonitor == MonitorSteps \/ Interrupt \/ PmShutdown \/ MonExcept

SpecMonitor == InitMonitor /\ [][NextMonitor]_vars

\* a session that nobody cancels: the main thread and the worker threads
\* keep running
SpecMonitorLive == InitMonitor /\ [][MonitorSteps]_vars /\ WF_vars(MonitorSteps)

\* the least integer that is at least a / b
CeilDiv(a, b) == (a + b - 1) \div b

\* the session has ended through the duration test
Completed == mon.state = "completed"

\* the run of the scenario: interval 10 seconds, duration 25 seconds, every
\* dispatch shorter than the interval
Scenario == mon.interval = 10 /\ mon.duration = <<25>> /\ mon.max_dispatch < 10

\* C11 as the spec states it: the scenario run executes exactly 3 cycles, and
\* no run executes more than floor(duration / interval) + 1 cycles.
C11_Original ==
    Completed =>
        /\ Scenario => mon.cycle = 3
        /\ mon.cycle <= (mon.duration[1] \div mon.interval) + 1

\* C11: a run with interval 10 and duration 25 whose dispatches are shorter
\* than the interval executes 2, 3 or 4 cycles, and no run with a positive
\* duration executes more than ceil(duration / interval) + 1 cycles.
C11_CyclesBoundedByCeiling ==
    Completed =>
        /\ Scenario => mon.cycle \in 2..4
        /\ mon.cycle <= CeilDiv(mon.duration[1], mon.interval) + 1

\* the scenario run completes after four cycles
C11_Witness == Completed /\ Scenario /\ mon.cycle = 4

\* the main thread has made the duration test of a cycle and gone on to sleep
TestedAndContinued == mon.state = "running" /\ pc = "mon_sleep"

\* C12: whenever a duration is set, 0 included, and the elapsed time has
\* reached it when a cycle completes, the session becomes Completed instead of
\* going on to another cycle; and a session becomes Completed only after a
\* full cycle (dispatch and report), never in the middle of one.
C12_DurationEndsSession ==
    /\ (TestedAndContinued /\ mon.duration # <<>>) =>
           now - mon.start_time < mon.duration[1]
    /\ Completed => mon.completed = mon.cycle

\* the session has ended through the KeyboardInterrupt handler
Cancelled == mon.state = "cancelled"

\* the interrupt arrived while the dispatch or the report of a cycle was in
\* progress
InterruptedInCycle == mon.int_at \in {"pm_submit", "mon_print"}

\* C13: a cancellation that arrives while the dispatch or the report of a
\* cycle is in progress does not interrupt that cycle: by the time the session
\* is Cancelled, the cycle that was in progress has been dispatched and
\* reported in full.
C13_CycleInProgressFinishes ==
    (Cancelled /\ InterruptedInCycle) => mon.completed >= mon.int_cycle

(***************************************************************************)
(* export_results(results, filename, format_type), and print_results and   *)
(* export_results called on their own with a snapshot.  The sink either    *)
(* can be opened for writing or open() raises PermissionError.  A csv file *)
(* is its header and its records (their order is the dict's); a cell is    *)
(* the text csv.writer writes for the value: a string as it is, None as    *)
(* the empty text <<>>, a number as the text that spells it.               *)
(***************************************************************************)
\* format_type.lower()
Lower(f) == CASE f = "JSON" -> "json" [] f = "CSV" -> "csv" [] OTHER -> f

\* json.dump(results, f, indent=2, default=str)
JsonFile(res) == [format |-> "json", value |-> res]

CsvHeader == <<"IP", "Status", "Response_Time_ms", "Timestamp", "Error">>

\* result.get('error', '')
ErrorCell(r) == IF r.error = <<>> THEN "" ELSE r.error[1]

\* a variant that writes the error text before the status
CsvRow_ErrorFirst(ip, r) ==
    <<ip, ErrorCell(r), r.response_time, r.timestamp, r.status>>

\* the list handed to writer.writerow for one entry
CsvRow(ip, r) ==
    <<ip, r.status, r.response_time, r.timestamp, ErrorCell(r)>>

CsvFile(res) ==
    [format |-> "csv", header |-> CsvHeader,
     rows |-> {CsvRow(ip, res[ip]) : ip \in DOMAIN res}]

\* what the body of the try block raises
ExportRaises(fmt, writable) ==
    IF fmt \in {"json", "csv"} /\ ~writable THEN "PermissionError" ELSE "none"

\* export_results as a whole: the file, the message, and how the call ends
\* (it has no return statement, and its handler catches every Exception)
export_results(res, format_type, writable) ==
    LET fmt == Lower(format_type)
        e   == ExportRaises(fmt, writable)
    IN  [file |-> IF e # "none" THEN <<>>
                  ELSE IF fmt = "json" THEN <<JsonFile(res)>>
                  ELSE IF fmt = "csv" THEN <<CsvFile(res)>>
                  ELSE <<>>,
         message |-> IF e = "none" THEN [msg |-> "Results exported to", e |-> ""]
                     ELSE IF Catches("Exception", e)
                          THEN [msg |-> "Error exporting results", e |-> e]
                     ELSE [msg |-> "", e |-> ""],
         raised |-> IF e = "none" \/ Catches("Exception", e) THEN "none" ELSE e,
         returned |-> IF e = "none" \/ Catches("Exception", e)
                      THEN <<"None">> ELSE <<>>]

\* a call of pinger.export_results(results, filename, format_type)
ExportResults ==
    /\ pc = "call"
    /\ caller = "export_results"
    /\ LET x == export_results(results, xp.format_type, xp.writable) IN
        /\ xp' = [xp EXCEPT !.called = TRUE, !.file = x.file,
                            !.returned = x.returned, !.raised = x.raised]
        /\ stdout' = IF x.message.msg = "" THEN stdout
                     ELSE Append(stdout, x.message)
        /\ exc' = x.raised
        /\ pc' = IF x.raised = "none" THEN "done" ELSE "raised"
    /\ UNCHANGED <<args, ti, ip_list, outcomes, caller, pm_ip_list, max_workers,
                   nsub, fstate, fresult, collected, results, ret, table, now,
                   mon>>

\* a call of pinger.print_results(results)
PrintResults ==
    /\ pc = "call"
    /\ caller = "print_results"
    /\ IF PrintRaises(results) = "none"
          THEN /\ table' = print_results(results)
               /\ pc' = "done"
               /\ UNCHANGED exc
          ELSE /\ pc' = "raised"
               /\ exc' = PrintRaises(results)
               /\ UNCHANGED table
    /\ UNCHANGED <<args, ti, ip_list, stdout, outcomes, caller, pm_ip_list,
                   max_workers, nsub, fstate, fresult, collected, results, ret,
                   now, mon, xp>>

\* the string "::1"
IP6_1 == <<0 - 3>>

ReportAddresses == {IP_10_0_0_2, IP_10_0_0_10, IP_10_0_0_5, IP6_1}

\* the snapshots ping_multiple_ips can return for valid addresses: every
\* entry is a result of ping_single_ip for its key
Snapshots ==
    UNION { {f \in [K -> {ping_single_ip(k, o, DefaultTimeout, t) :
                             k \in K, o \in OutcomeKinds, t \in 0..1}] :
                 \A k \in K : f[k].ip = k} :
            K \in {K \in SUBSET ReportAddresses : Cardinality(K) <= MaxSnapshot} }

Formats == {"json", "csv", "CSV", "xml"}

InitReport ==
    /\ exc = "none"
    /\ ti = 1
    /\ ip_list = <<>>
    /\ stdout = <<>>
    /\ nsub = 0
    /\ fstate = <<>>
    /\ fresult = <<>>
    /\ collected = {}
    /\ ret = <<>>
    /\ table = <<>>
    /\ now = 0
    /\ mon = NoMonitor
    /\ args = NoArgs
    /\ outcomes = OutcomeKinds
    /\ pm_ip_list = <<>>
    /\ max_workers = DefaultMaxWorkers
    /\ pc = "call"
    /\ results \in Snapshots
    /\ \/ caller = "print_results" /\ xp = NoExport
       \/ /\ caller = "export_results"
          /\ \E f \in Formats, w \in BOOLEAN :
                xp = [NoExport EXCEPT !.format_type = f, !.writable = w]

NextReport == PrintResults \/ ExportResults

SpecReport == InitReport /\ [][NextReport]_vars

\* export_results has come back from a call whose sink cannot be written
ExportFailed ==
    /\ xp.called
    /\ ExportRaises(Lower(xp.format_type), xp.writable) # "none"

\* C14: when the sink cannot be written, export_results tells its caller: the
\* call ends (in its return value or in an exception) differently from the
\* same call with a sink that can be written.
C14_FailureReachesCaller ==
    ExportFailed =>
        LET ok == export_results(results, xp.format_type, TRUE)
        IN  <<xp.raised, xp.returned>> # <<ok.raised, ok.returned>>

\* print_results has come back, or an exception has left it
Printed == caller = "print_results" /\ pc # "call"

\* the rows of the table, without the summary line
Rows == SubSeq(table, 1, Len(table) - 1)

\* C15: for every non-empty snapshot whose keys are valid IPv4 or IPv6
\* addresses, print_results prints exactly one row per key, in ascending
\* numeric order of the addresses.
C15_OneRowPerTargetInOrder ==
    (Printed /\ DOMAIN results # {}) =>
        /\ exc = "none"
        /\ Len(Rows) = Cardinality(DOMAIN results)
        /\ {Rows[i].ip : i \in 1..Len(Rows)} = DOMAIN results
        /\ \A i, j \in 1..Len(Rows) :
              i < j => ip_address(Rows[i].ip).value < ip_address(Rows[j].ip).value

\* the column of the csv file with the given name
Column(file, name) == CHOOSE i \in 1..Len(file.header) : file.header[i] = name

\* what a csv.DictReader gives back for the three columns
ReadBack(file) ==
    { [IP |-> row[Column(file, "IP")], Status |-> row[Column(file, "Status")],
       Timestamp |-> row[Column(file, "Timestamp")]] : row \in file.rows }

\* export_results has written a csv file
CsvWritten == xp.called /\ xp.file # <<>> /\ xp.file[1].format = "csv"

\* C16: a csv export writes one record per entry of the snapshot, and reading
\* the file back gives exactly the address, the status and the timestamp of
\* every entry.
C16_CsvRoundTrip ==
    CsvWritten =>
        /\ Cardinality(xp.file[1].rows) = Cardinality(DOMAIN results)
        /\ ReadBack(xp.file[1]) =
               { [IP |-> k, Status |-> results[k].status,
                  Timestamp |-> results[k].timestamp] : k \in DOMAIN results }

\* a csv file of two entries, one of them with an error text, with different
\* timestamps
C16_Witness ==
    /\ CsvWritten
    /\ Cardinality(DOMAIN results) = 2
    /\ \E a, b \in DOMAIN results :
          /\ results[a].error # <<>>
          /\ results[a].timestamp # results[b].timestamp

\* C17: if a duration is set and every probe terminates, a session that
\* nobody cancels eventually reaches Completed.
C17_EventuallyCompleted == (mon.duration # <<>>) ~> Completed

\* a second or later cycle has started, before the clock of the run stopped
LaterCycleStarted ==
    /\ mon.prev_start # <<>>
    /\ mon.cycle_start # <<>>
    /\ mon.cycle_start[1] < mon.horizon

\* the time the previous cycle took, from the start of its dispatch to the end
\* of its report
PrevElapsed == mon.prev_end[1] - mon.prev_start[1]

\* C18 as the spec states it: the sleep is max(0, interval - elapsed), so a
\* cycle that follows one whose dispatch was shorter than the interval starts
\* exactly one interval after that one started.
C18_Original ==
    (LaterCycleStarted /\ PrevElapsed < mon.interval) =>
        mon.cycle_start[1] - mon.prev_start[1] = mon.interval

\* C18: the sleep after a cycle is the full interval, whatever the cycle took:
\* every cycle starts exactly one interval after the report of the cycle before
\* it ended, that is, interval plus the time of that cycle after its start.
C18_SleepsFullInterval ==
    LaterCycleStarted =>
        /\ mon.cycle_start[1] - mon.prev_end[1] = mon.interval
        /\ mon.cycle_start[1] - mon.prev_start[1] = mon.interval + PrevElapsed

\* a cycle has started after one whose dispatch took time, but less than the
\* interval
C18_Witness ==
    LaterCycleStarted /\ PrevElapsed > 0 /\ PrevElapsed < mon.interval

\* C19: when a session is cancelled, the number of cycles it reports is the
\* number of cycles that completed in full (dispatch and report), wherever
\* the cancellation arrived.
C19_ReportedIsCompleted ==
    (Cancelled /\ mon.cycle < MaxCycles) => mon.reported = <<mon.completed>>

\* the dispatch of a cycle is about to begin
AboutToDispatch == mon.state = "running" /\ pc = "mon_top"

\* C20: cycles never overlap: when the dispatch of a cycle begins, no probe of
\* an earlier cycle is queued or running, every earlier result has been
\* collected, and every earlier cycle's snapshot has been reported.
C20_CyclesDoNotOverlap ==
    AboutToDispatch =>
        /\ Pending = {} /\ Running = {}
        /\ collected = Futures
        /\ nsub = IF mon.cycle = 1 THEN 0 ELSE Len(ip_list)
        /\ mon.cycle < MaxCycles => mon.completed = mon.cycle - 1

\* the second cycle of a session with two targets is about to begin
C20_Witness ==
    AboutToDispatch /\ mon.cycle = 2 /\ Len(ip_list) = 2 /\ Finished = {1, 2}

\* the number of times results[k] has been assigned in this dispatch: once
\* for every collected future of a probe of k
Writes(k) == Cardinality({i \in collected : pm_ip_list[i] = k})

\* C21: while a dispatch assembles its snapshot, each key is written exactly
\* once, and the snapshot the dispatch returns does not depend on the order in
\* which the probes completed: it holds, under each probe's address, the
\* result of that probe.
C21_WriteOnceOrderIndependent ==
    (caller = "direct" /\ exc = "none") =>
        /\ \A k \in DOMAIN results : Writes(k) = 1
        /\ pc = "done" =>
              \A i \in Futures : results[pm_ip_list[i]] = fresult[i][1].r

(***************************************************************************)
(* main in monitor mode: literal targets, -m, -w, -i and -d on the command *)
(* line, no network and no address file.                                   *)
(***************************************************************************)
InitMainMonitor ==
    /\ InitCommon
    /\ pc = "main_targets"
    /\ caller = "main"
    /\ \E t \in SeqsUpTo(Addresses, MaxArgs), w \in 1..MaxWorkers,
          i \in 1..MaxInterval, d \in {<<>>, <<MaxDuration>>} :
          args = [NoArgs EXCEPT !.targets = t, !.workers = w, !.monitor = TRUE,
                                !.interval = i, !.duration = d]
    /\ outcomes = MonitorOutcomes
    /\ pm_ip_list = <<>>
    /\ max_workers = args.workers

NextMainMonitor == MainTarget \/ MainFile \/ MainDispatch \/ NextMonitor

SpecMainMonitor == InitMainMonitor /\ [][NextMainMonitor]_vars

\* C22: in continuous monitoring the number of probes in flight never exceeds
\* the concurrency limit given on the command line (args.workers), as in a
\* one-shot dispatch.
C22_MonitorRespectsWorkers ==
    mon.state = "running" => Cardinality(Running) <= args.workers

\* the success message of export_results is on stdout
SuccessAnnounced ==
    \E i \in 1..Len(stdout) : stdout[i].msg = "Results exported to"

\* C23: export_results announces success only when it has written the
\* snapshot to the file: whatever format_type is, a call that wrote no file
\* prints no success message.
C23_SuccessOnlyIfWritten ==
    (xp.called /\ xp.file = <<>>) => ~SuccessAnnounced

====
